---- MODULE Spec2Model ----
(***************************************************************************)
(* Model of esbonio's live preview subsystem:                              *)
(*   server/features/preview_manager/__init__.py  (PreviewManager)         *)
(* Paths are sequences of one-character strings, so that str.replace is    *)
(* computed character by character, as Python computes it.                 *)
(***************************************************************************)
EXTENDS Integers, Sequences, FiniteSets, TLC

\* ------------------------------------------------------------------ bounds
\* Number of coordinator calls that may be in flight at once on the event loop.
NumTasks == 2
\* Number of path segments of a document below the source root.
MaxParts == 2

\* ------------------------------------------------------------ text helpers
SLASH == <<"/">>
RST == <<".", "r", "s", "t">>
HTML == <<".", "h", "t", "m", "l">>
INDEX_RST == <<"i", "n", "d", "e", "x", ".", "r", "s", "t">>
EMPTY == <<>>

StartsWith(s, p) == Len(s) >= Len(p) /\ SubSeq(s, 1, Len(p)) = p
EndsWith(s, p) == Len(s) >= Len(p) /\ SubSeq(s, Len(s) - Len(p) + 1, Len(s)) = p
DropFirst(s, n) == SubSeq(s, n + 1, Len(s))
DropLast(s, n) == SubSeq(s, 1, Len(s) - n)

\* Python's str.replace(old, new): every non-overlapping occurrence of old,
\* scanning from the left, is replaced by new.  With an empty old, new is
\* inserted before every character and at the end.
RECURSIVE Replace(_, _, _)
Replace(s, old, new) ==
    IF Len(old) = 0
    THEN IF Len(s) = 0 THEN new
         ELSE new \o <<Head(s)>> \o Replace(Tail(s), old, new)
    ELSE IF Len(s) < Len(old) THEN s
    ELSE IF StartsWith(s, old)
         THEN new \o Replace(DropFirst(s, Len(old)), old, new)
         ELSE <<Head(s)>> \o Replace(Tail(s), old, new)

\* ------------------------------------------------- preview_file: path mapping
NONE == "None"
UNSUPPORTED == <<"<unsupported>">>

\* rst_path = src_uri.path.replace(client.src_uri.path, "")
RstPath(doc_path, src_path) == Replace(doc_path, src_path, EMPTY)

\* A builder check that falls through to the html rule for unknown builders.
HtmlPath_FallThrough(builder, rst_path) ==
    IF builder = "dirhtml"
    THEN Replace(Replace(rst_path, INDEX_RST, EMPTY), RST, SLASH)
    ELSE Replace(rst_path, RST, HTML)

\* The builder-specific branch of preview_file; UNSUPPORTED stands for the
\* else branch, which logs an error and returns None.
HtmlPath(builder, rst_path) ==
    IF builder = "html" THEN Replace(rst_path, RST, HTML)
    ELSE IF builder = "dirhtml"
         THEN Replace(Replace(rst_path, INDEX_RST, EMPTY), RST, SLASH)
         ELSE UNSUPPORTED

\* Uri.create(scheme, authority, path, query), kept as its components.
Compose(http_port, path, ws_port) ==
    [scheme |-> "http", host |-> "localhost", port |-> http_port,
     path |-> path, query |-> [ws |-> ws_port]]

\* ------------------------------------------------ the Registry (SphinxManager)
NoUri == [scheme |-> NONE, path |-> EMPTY]
FileUri(p) == [scheme |-> "file", path |-> p]

NoClient == [id |-> NONE, src_uri |-> NoUri, build_dir |-> NONE, builder |-> NONE]

\* The clients the Registry holds: two previewable projects, one with a
\* builder that has no preview, one whose application is not created yet,
\* and three that lack exactly one of the values preview_file asks for.
ClientIds == {"A", "B", "L", "U", "S", "D", "K"}

Client(id) ==
    CASE id = "A" -> [id |-> "A", src_uri |-> FileUri(<<"/", "a">>),
                      build_dir |-> "/a/_build", builder |-> "html"]
      [] id = "B" -> [id |-> "B", src_uri |-> FileUri(<<"/", "b">>),
                      build_dir |-> "/b/_build", builder |-> "dirhtml"]
      [] id = "L" -> [id |-> "L", src_uri |-> FileUri(<<"/", "l">>),
                      build_dir |-> "/l/_build", builder |-> "latex"]
      [] id = "U" -> [id |-> "U", src_uri |-> NoUri,
                      build_dir |-> NONE, builder |-> NONE]
      [] id = "S" -> [id |-> "S", src_uri |-> NoUri,
                      build_dir |-> "/s/_build", builder |-> "html"]
      [] id = "D" -> [id |-> "D", src_uri |-> FileUri(<<"/", "d">>),
                      build_dir |-> NONE, builder |-> "html"]
      [] id = "K" -> [id |-> "K", src_uri |-> FileUri(<<"/", "k">>),
                      build_dir |-> "/k/_build", builder |-> NONE]
      [] OTHER -> NoClient

\* The documents the editor may name; "N" belongs to no project.
DocIds == {"A", "B", "L", "U", "S", "D", "K", "N"}

DocUri(d) ==
    CASE d = "A" -> FileUri(<<"/", "a", "/", "x">> \o RST)
      [] d = "B" -> FileUri(<<"/", "b", "/">> \o INDEX_RST)
      [] OTHER -> FileUri(<<"/">> \o <<d>> \o <<"/", "x">> \o RST)

\* await self.sphinx.get_client(src_uri)
get_client(d) == IF d \in ClientIds THEN Client(d) ELSE NoClient

\* ------------------------------------------------------------------- state
Tasks == 1..NumTasks
Lines == {3, 7}
HttpPorts == {8001, 8002}
WsPorts == {9001, 9002}
NoServer == [id |-> 0, port |-> 0]
Absent == [kind |-> "absent"]
Raised == [kind |-> "error"]
Result(uri) == [kind |-> "uri", uri |-> uri]
NoArg == [doc |-> NONE, line |-> 0]
Reload == [action |-> "reload"]
Scroll(line) == [action |-> "scroll", line |-> line]

VARIABLES
    \* PreviewManager
    build_dir,      \* _request_handler_factory.build_dir
    last_preview,   \* the document of the latest preview_file to assign build_dir
    http_server,    \* _http_server: 0 is None, k the k-th HTTPServer created
    http_port,      \* _http_server.server_port
    http_created,   \* how many HTTPServer objects were constructed
    ws_server,      \* _ws_server: 0 is None, k the k-th WebviewServer created
    ws_port,        \* _ws_server.port: 0 until start_ws has bound
    ws_created,     \* how many WebviewServer objects were made
    ws_binds,       \* how many times a start_ws task has bound a port
    ws_starting,    \* _ws_task is created and has not bound yet
    \* one coroutine per task
    op, pc, arg,
    html_path,      \* preview_file's local html_path
    server,         \* what get_http_server returned to the call
    webview,        \* what get_webview_server returned to the call
    seen_dir,       \* on_build: the build_dir its comparison read
    sent,           \* the broadcasts the call made on the webview server
    ret,            \* the call's result
    \* the path mapping applied to drawn inputs
    m_pc, m_src, m_rel, m_builder, m_rst, m_html,
    \* SphinxClient
    c_proc,         \* the agent process: unstarted, running, exited, reaped
    c_code,         \* server.returncode
    c_stderr,       \* what server.stderr is
    c_stopped,      \* Client.stopped
    c_exit,         \* server_exit: none, reading, returned, raised
    c_read,         \* server.stderr.read() was called
    sphinx_info,    \* SphinxClient.sphinx_info
    ca_pc,          \* create_application: idle, awaiting, returned, invalid_state, failed
    ca_sent,        \* the call handed a sphinx/createApp request to the protocol
    ca_live,        \* ... at a moment when the agent process was running
    ca_resp,        \* what the agent answered to the call
    c_succeeded,    \* some create_application call has returned
    \* EsbonioLanguageServer
    _loaded_extensions,  \* name -> the setup function recorded for it
    _features,           \* the feature classes registered with the server
    e_last,              \* the latest load_extension call and how it ended
    \* SphinxConfig._guess_build_command
    g_pc,           \* off, loop (at the while test), done
    fs_path,        \* path = Uri.to_fs_path(uri), as its segments
    conf_dirs,      \* the directories that hold a conf.py
    previous,
    current,
    tried,          \* the directories tested for conf.py, in order
    command         \* the list returned

coord == <<build_dir, last_preview, http_server, http_port, http_created,
           ws_server, ws_port, ws_created, ws_binds, ws_starting>>
locals == <<op, pc, arg, html_path, server, webview, seen_dir, sent, ret>>
mvars == <<m_pc, m_src, m_rel, m_builder, m_rst, m_html>>
cvars == <<c_proc, c_code, c_stderr, c_stopped, c_exit, c_read, sphinx_info,
           ca_pc, ca_sent, ca_live, ca_resp, c_succeeded>>
evars == <<_loaded_extensions, _features, e_last>>
gvars == <<g_pc, fs_path, conf_dirs, previous, current, tried, command>>
rest == <<mvars, cvars, evars, gvars>>
vars == <<coord, locals, mvars, cvars, evars, gvars>>

\* PreviewManager.__init__
InitCoord_NoDir ==
    /\ build_dir = NONE
    /\ last_preview = NONE
    /\ http_server = 0 /\ http_port = 0 /\ http_created = 0
    /\ ws_server = 0 /\ ws_port = 0 /\ ws_created = 0 /\ ws_binds = 0
    /\ ws_starting = FALSE

InitCoord ==
    /\ build_dir = ""
    /\ last_preview = NONE
    /\ http_server = 0 /\ http_port = 0 /\ http_created = 0
    /\ ws_server = 0 /\ ws_port = 0 /\ ws_created = 0 /\ ws_binds = 0
    /\ ws_starting = FALSE

InitTasks ==
    /\ op = [t \in Tasks |-> "idle"]
    /\ pc = [t \in Tasks |-> "idle"]
    /\ arg = [t \in Tasks |-> NoArg]
    /\ html_path = [t \in Tasks |-> EMPTY]
    /\ server = [t \in Tasks |-> NoServer]
    /\ webview = [t \in Tasks |-> NoServer]
    /\ seen_dir = [t \in Tasks |-> NONE]
    /\ sent = [t \in Tasks |-> <<>>]
    /\ ret = [t \in Tasks |-> Absent]

MapIdle ==
    /\ m_pc = "off" /\ m_src = EMPTY /\ m_rel = EMPTY
    /\ m_builder = NONE /\ m_rst = EMPTY /\ m_html = EMPTY

\* sphinx_info as an object with its four values, or None.
NoInfo == [obj |-> FALSE, src_dir |-> NONE, conf_dir |-> NONE,
           build_dir |-> NONE, builder |-> NONE]
Info(s, c, b, k) == [obj |-> TRUE, src_dir |-> s, conf_dir |-> c,
                     build_dir |-> b, builder |-> k]
NoResponse == [kind |-> "none", info |-> NoInfo]

\* server.returncode: None while the process runs, then its exit status.
NoCode == <<>>
ExitCodes == {0, 1}
Code(n) == <<n>>
\* server_exit: server.returncode != 0
NonZero(code) == code # Code(0)

\* SphinxClient.__init__
InitClient ==
    /\ c_proc = "unstarted" /\ c_code = NoCode /\ c_stderr = NONE
    /\ c_stopped = FALSE /\ c_exit = "none" /\ c_read = FALSE
    /\ sphinx_info = NoInfo
    /\ ca_pc = "idle" /\ ca_sent = FALSE /\ ca_live = FALSE
    /\ ca_resp = NoResponse /\ c_succeeded = FALSE

\* A setup function: its parameters by the kind of their annotation, the
\* feature class it registers with add_feature (or none), and whether it
\* raises.
NoSetup == [params |-> <<>>, provides |-> NONE, raises |-> NONE]
NoCall == [name |-> NONE, was_loaded |-> FALSE, called |-> FALSE, outcome |-> NONE]

\* The extension names load_extension is called with.
ExtNames == {"x", "y"}

\* EsbonioLanguageServer.__init__
InitServer ==
    /\ _loaded_extensions = [n \in ExtNames |-> NoSetup]
    /\ _features = {}
    /\ e_last = NoCall

\* No path: to_fs_path answered None, previous = None.
NoPath == <<NONE>>

\* _guess_build_command is not running.
GuessIdle ==
    /\ g_pc = "off" /\ fs_path = NoPath /\ conf_dirs = {}
    /\ previous = NoPath /\ current = NoPath
    /\ tried = <<>> /\ command = <<>>

Init == InitCoord /\ InitTasks /\ MapIdle /\ InitClient /\ InitServer /\ GuessIdle

\* ------------------------------------------------------ the two lazy servers
\* A get_http_server without its "is not None" early return.
get_http_server_Always(p) ==
    /\ http_created' = http_created + 1
    /\ http_server' = http_created + 1
    /\ http_port' = p

\* get_http_server: the HTTPServer is constructed, and so bound to the
\* ephemeral port p, only when _http_server is None.
get_http_server(p) ==
    IF http_server = 0
    THEN /\ http_created' = http_created + 1
         /\ http_server' = http_created + 1
         /\ http_port' = p
    ELSE UNCHANGED <<http_server, http_port, http_created>>

\* A get_webview_server without its "is not None" early return.
ws_exists_Never == FALSE

\* get_webview_server, first branch: the server exists and is returned at once.
ws_exists == ws_server # 0

\* get_webview_server, second branch up to the sleep: the server object is
\* made and its start_ws task is created; nothing is bound yet.
get_webview_server_create ==
    /\ ws_created' = ws_created + 1
    /\ ws_server' = ws_created + 1
    /\ ws_port' = 0
    /\ ws_starting' = TRUE
    /\ UNCHANGED ws_binds

\* The start_ws task: binds the web socket server to an ephemeral port.  It
\* runs on the event loop whenever the loop gets to it; asyncio.sleep(1) in
\* get_webview_server does not wait for it.
start_ws ==
    /\ ws_starting
    /\ \E p \in WsPorts : ws_port' = p
    /\ ws_starting' = FALSE
    /\ ws_binds' = ws_binds + 1
    /\ UNCHANGED <<build_dir, last_preview, http_server, http_port, http_created,
                   ws_server, ws_created>>
    /\ UNCHANGED <<locals, rest>>

\* ------------------------------------------------------------------ calls
\* A call is shown from the moment its first await (get_client, where there
\* is one) has answered: before that moment the coroutine has read and
\* written nothing of the PreviewManager, so a call that waits there longer
\* is the same call started later.  From there a call runs without yielding
\* up to asyncio.sleep(1) in get_webview_server, or to its end.
Free(t) == pc[t] \in {"idle", "done"}

\* A new coroutine takes the first free task: which task runs a call has no
\* effect on what the call does.  A finished task keeps what its call
\* returned until the task is taken again.
Begin(t, name, a) ==
    /\ Free(t)
    /\ \A u \in Tasks : u < t => ~Free(u)
    /\ op' = [op EXCEPT ![t] = name]
    /\ arg' = [arg EXCEPT ![t] = a]

\* get_webview_server returns ws to the call.
Returned(t, ws, port) == webview' = [webview EXCEPT ![t] = [id |-> ws, port |-> port]]

\* ---------------------------------------------------------------- on_build
\* An on_build without the comparison of the build directories.
OnBuildIgnored_NoDirCheck(client, dir) == client = NoClient

\* The two early returns of on_build.
OnBuildIgnored(client, dir) ==
    \/ client = NoClient
    \/ client.build_dir # dir

on_build(t, d) ==
    /\ Begin(t, "on_build", [doc |-> d, line |-> 0])
    /\ seen_dir' = [seen_dir EXCEPT ![t] = build_dir]
    /\ LET client == get_client(d) IN
       IF OnBuildIgnored(client, build_dir)
       THEN /\ pc' = [pc EXCEPT ![t] = "done"]
            /\ webview' = [webview EXCEPT ![t] = NoServer]
            /\ sent' = [sent EXCEPT ![t] = <<>>]
            /\ UNCHANGED coord
       ELSE IF ws_exists
       THEN /\ Returned(t, ws_server, ws_port)
            /\ sent' = [sent EXCEPT ![t] = <<Reload>>]
            /\ pc' = [pc EXCEPT ![t] = "done"]
            /\ UNCHANGED coord
       ELSE /\ get_webview_server_create
            /\ pc' = [pc EXCEPT ![t] = "sleep"]
            /\ webview' = [webview EXCEPT ![t] = NoServer]
            /\ sent' = [sent EXCEPT ![t] = <<>>]
            /\ UNCHANGED <<build_dir, last_preview, http_server, http_port, http_created>>
    /\ html_path' = [html_path EXCEPT ![t] = EMPTY]
    /\ server' = [server EXCEPT ![t] = NoServer]
    /\ ret' = [ret EXCEPT ![t] = Absent]
    /\ UNCHANGED rest

\* -------------------------------------------------------------- scroll_view
scroll_view(t, line) ==
    /\ Begin(t, "scroll_view", [doc |-> NONE, line |-> line])
    /\ seen_dir' = [seen_dir EXCEPT ![t] = NONE]
    /\ IF ws_exists
       THEN /\ Returned(t, ws_server, ws_port)
            /\ sent' = [sent EXCEPT ![t] = <<Scroll(line)>>]
            /\ pc' = [pc EXCEPT ![t] = "done"]
            /\ UNCHANGED coord
       ELSE /\ get_webview_server_create
            /\ pc' = [pc EXCEPT ![t] = "sleep"]
            /\ webview' = [webview EXCEPT ![t] = NoServer]
            /\ sent' = [sent EXCEPT ![t] = <<>>]
            /\ UNCHANGED <<build_dir, last_preview, http_server, http_port, http_created>>
    /\ html_path' = [html_path EXCEPT ![t] = EMPTY]
    /\ server' = [server EXCEPT ![t] = NoServer]
    /\ ret' = [ret EXCEPT ![t] = Absent]
    /\ UNCHANGED rest

\* ------------------------------------------------------------- preview_file
\* A preview_file that does not ask for client.build_dir.
Unavailable_NoBuildDir(client) ==
    \/ client = NoClient
    \/ client.src_uri = NoUri
    \/ client.builder = NONE

\* The two early returns of preview_file before the path is mapped.
Unavailable(client) ==
    \/ client = NoClient
    \/ client.src_uri = NoUri
    \/ client.build_dir = NONE
    \/ client.builder = NONE

\* The last statements of preview_file: webview.port is read and the uri is
\* composed.  A web socket server that has not bound has no port to read: the
\* read yields no port, or fails.
preview_file_results(hport, path, wport) ==
    IF wport = 0
    THEN {Result(Compose(hport, path, 0)), Raised}
    ELSE {Result(Compose(hport, path, wport))}

\* A preview_file that points the HTTP server at a directory only when it
\* serves none yet.
retarget_KeepFirst(d, client) ==
    /\ build_dir' = IF build_dir = "" THEN client.build_dir ELSE build_dir
    /\ last_preview' = d

\* A preview_file that leaves the HTTP server's directory alone.
retarget_Skip(d, client) ==
    /\ UNCHANGED build_dir
    /\ last_preview' = d

\* preview_file points the HTTP server at the client's build directory.
retarget(d, client) ==
    /\ build_dir' = client.build_dir
    /\ last_preview' = d

preview_file(t, d) ==
    /\ Begin(t, "preview_file", [doc |-> d, line |-> 0])
    /\ LET client == get_client(d)
           rst_path == RstPath(DocUri(d).path, client.src_uri.path)
           mapped == IF Unavailable(client) THEN UNSUPPORTED
                     ELSE HtmlPath(client.builder, rst_path)
       IN
       IF Unavailable(client) \/ mapped = UNSUPPORTED
       THEN /\ ret' = [ret EXCEPT ![t] = Absent]
            /\ pc' = [pc EXCEPT ![t] = "done"]
            /\ html_path' = [html_path EXCEPT ![t] = EMPTY]
            /\ server' = [server EXCEPT ![t] = NoServer]
            /\ webview' = [webview EXCEPT ![t] = NoServer]
            /\ UNCHANGED coord
       ELSE /\ html_path' = [html_path EXCEPT ![t] = mapped]
            /\ \E p \in HttpPorts : get_http_server(p)
            /\ server' = [server EXCEPT ![t] = [id |-> http_server', port |-> http_port']]
            /\ retarget(d, client)
            /\ IF ws_exists
               THEN /\ Returned(t, ws_server, ws_port)
                    /\ \E r \in preview_file_results(http_port', mapped, ws_port) :
                           ret' = [ret EXCEPT ![t] = r]
                    /\ pc' = [pc EXCEPT ![t] = "done"]
                    /\ UNCHANGED <<ws_server, ws_port, ws_created, ws_binds, ws_starting>>
               ELSE /\ get_webview_server_create
                    /\ pc' = [pc EXCEPT ![t] = "sleep"]
                    /\ webview' = [webview EXCEPT ![t] = NoServer]
                    /\ ret' = [ret EXCEPT ![t] = Absent]
    /\ sent' = [sent EXCEPT ![t] = <<>>]
    /\ seen_dir' = [seen_dir EXCEPT ![t] = NONE]
    /\ UNCHANGED rest

\* ------------------------------------------- get_webview_server, after sleep
\* asyncio.sleep(1) is over, whether or not start_ws has bound by now:
\* get_webview_server returns _ws_server and the caller goes on to its end.
sleep_over(t) ==
    /\ pc[t] = "sleep"
    /\ Returned(t, ws_server, ws_port)
    /\ pc' = [pc EXCEPT ![t] = "done"]
    /\ CASE op[t] = "preview_file" ->
              /\ \E r \in preview_file_results(http_port, html_path[t], ws_port) :
                     ret' = [ret EXCEPT ![t] = r]
              /\ UNCHANGED sent
         [] op[t] = "on_build" ->
              /\ sent' = [sent EXCEPT ![t] = Append(@, Reload)]
              /\ UNCHANGED ret
         [] OTHER ->
              /\ sent' = [sent EXCEPT ![t] = Append(@, Scroll(arg[t].line))]
              /\ UNCHANGED ret
    /\ UNCHANGED <<coord, op, arg, html_path, server, seen_dir, rest>>

\* ------------------------------------------------------------ specification
Next ==
    \/ \E t \in Tasks, d \in DocIds : preview_file(t, d)
    \/ \E t \in Tasks, d \in DocIds : on_build(t, d)
    \/ \E t \in Tasks, n \in Lines : scroll_view(t, n)
    \/ \E t \in Tasks : sleep_over(t)
    \/ start_ws

Spec == Init /\ [][Next]_vars

\* ------------------------------------------------------------ properties
\* The task's own record changed: the step is a step of task t.
Stepped(t) ==
    <<op[t], pc[t], arg[t], html_path[t], server[t], webview[t], seen_dir[t],
      sent[t], ret[t]>> #
    <<op'[t], pc'[t], arg'[t], html_path'[t], server'[t], webview'[t],
      seen_dir'[t], sent'[t], ret'[t]>>

\* The step starts a call of the named operation in task t.
Starts(t, name) == Free(t) /\ Stepped(t) /\ op'[t] = name

\* The Registry's client for the build has the directory dir.
Matches(d, dir) == get_client(d) # NoClient /\ get_client(d).build_dir = dir

\* C1: on_build broadcasts a reload if and only if the Registry resolves a
\* client for the source and that client's build directory equals the
\* directory the HTTP server currently serves; otherwise it broadcasts
\* nothing and changes nothing of the PreviewManager.
C1_ReloadIffDirMatches ==
    [][\A t \in Tasks :
        /\ Starts(t, "on_build") =>
             IF Matches(arg'[t].doc, build_dir)
             THEN \/ pc'[t] = "done" /\ sent'[t] = <<Reload>>
                  \/ pc'[t] = "sleep" /\ sent'[t] = <<>>
             ELSE pc'[t] = "done" /\ sent'[t] = <<>> /\ UNCHANGED coord
        /\ (op[t] = "on_build" /\ pc[t] = "sleep" /\ pc'[t] = "done") =>
             sent'[t] = <<Reload>>
      ]_vars

\* A build of the previewed project has ended with its one reload.
C1_Witness ==
    \E t \in Tasks :
        /\ op[t] = "on_build" /\ pc[t] = "done"
        /\ Matches(arg[t].doc, seen_dir[t])
        /\ sent[t] = <<Reload>>

\* C2: at most one HTTP server and at most one web socket server are ever
\* created, each binds once, and every call of get_http_server or
\* get_webview_server returns that one server, whose port never changes
\* once bound.
C2_SingletonServers ==
    /\ http_created <= 1 /\ ws_created <= 1 /\ ws_binds <= 1
    /\ http_server \in {0, 1} /\ ws_server \in {0, 1}
    /\ \A t \in Tasks :
        /\ server[t] # NoServer => server[t] = [id |-> 1, port |-> http_port]
        /\ webview[t] # NoServer =>
             webview[t].id = 1 /\ webview[t].port \in {0, ws_port}

\* Two calls hold the servers their ensure calls returned, the second
\* answered from the existing servers.
C2_Witness ==
    \E t, u \in Tasks :
        /\ t # u
        /\ server[t].id = 1 /\ server[u].id = 1
        /\ webview[t].id = 1 /\ webview[u].id = 1
        /\ webview[t].port # 0 /\ webview[u].port # 0

\* C3: when the client's builder is neither html nor dirhtml, preview_file
\* returns None and changes nothing of the PreviewManager: the served
\* directory stays and no server is created.
C3_UnsupportedBuilderIsNoOp ==
    [][\A t \in Tasks :
        (/\ Starts(t, "preview_file")
         /\ get_client(arg'[t].doc) # NoClient
         /\ get_client(arg'[t].doc).builder \notin {"html", "dirhtml"})
        => (pc'[t] = "done" /\ ret'[t] = Absent /\ UNCHANGED coord)
      ]_vars

\* A preview of the latex project has returned None while another project
\* is being served.
C3_Witness ==
    \E t \in Tasks :
        /\ op[t] = "preview_file" /\ pc[t] = "done" /\ arg[t].doc = "L"
        /\ ret[t] = Absent
        /\ http_server = 1 /\ build_dir = "/a/_build"

\* C4: preview_file returns None, without raising, when the Registry has no
\* client for the source and when the client lacks its source uri, its build
\* directory or its builder; it then starts no server and leaves the served
\* directory as it was.
C4_UnavailableIsNoOp ==
    [][\A t \in Tasks :
        (/\ Starts(t, "preview_file")
         /\ LET c == get_client(arg'[t].doc) IN
                \/ c = NoClient
                \/ c.src_uri = NoUri
                \/ c.build_dir = NONE
                \/ c.builder = NONE)
        => (/\ pc'[t] = "done" /\ ret'[t] = Absent /\ ret'[t] # Raised
            /\ UNCHANGED coord)
      ]_vars

\* A preview for a client that lacks only its build directory has returned
\* None before any server exists.
C4_Witness ==
    \E t \in Tasks :
        /\ op[t] = "preview_file" /\ pc[t] = "done" /\ arg[t].doc = "D"
        /\ ret[t] = Absent
        /\ http_server = 0 /\ ws_server = 0 /\ build_dir = ""

\* C5: every uri preview_file returns is http://localhost:<p1><path>?ws=<p2>
\* with p1 the HTTP server's port, path the builder-mapped path and p2 the
\* port the web socket server is bound to.
C5_UriNamesBoundPorts ==
    \A t \in Tasks :
        (op[t] = "preview_file" /\ pc[t] = "done" /\ ret[t] # Absent
         /\ ret[t] # Raised)
        => LET uri == ret[t].uri
               c == get_client(arg[t].doc)
           IN /\ uri.scheme = "http" /\ uri.host = "localhost"
              /\ uri.port = http_port /\ http_port # 0
              /\ uri.path = HtmlPath(c.builder,
                                     RstPath(DocUri(arg[t].doc).path, c.src_uri.path))
              /\ ws_port # 0 /\ uri.query.ws = ws_port

\* C6: preview_file reads the web socket server's port only after start_ws
\* has bound it: get_webview_server does not return to preview_file before.
C6_PortReadAfterBind ==
    \A t \in Tasks :
        (op[t] = "preview_file" /\ pc[t] = "done" /\ webview[t] # NoServer)
        => webview[t].port # 0

\* C10: scroll_view ends with exactly one scroll(line) on the web socket
\* server, which it creates if there is none and reuses otherwise; it never
\* creates the HTTP server and never changes the served directory.
C10_ScrollViewFrame ==
    [][\A t \in Tasks :
        /\ Starts(t, "scroll_view") =>
             /\ UNCHANGED <<build_dir, http_server, http_port, http_created>>
             /\ IF ws_server = 0
                THEN /\ ws_created' = ws_created + 1 /\ ws_server' # 0
                     /\ pc'[t] = "sleep" /\ sent'[t] = <<>>
                ELSE /\ UNCHANGED <<ws_server, ws_port, ws_created, ws_binds,
                                    ws_starting>>
                     /\ pc'[t] = "done" /\ webview'[t].id = ws_server
                     /\ sent'[t] = <<Scroll(arg'[t].line)>>
        /\ (op[t] = "scroll_view" /\ pc[t] = "sleep" /\ pc'[t] = "done") =>
             /\ UNCHANGED coord
             /\ webview'[t].id = ws_server
             /\ sent'[t] = <<Scroll(arg[t].line)>>
      ]_vars

\* One scroll_view made the web socket server and slept, another reused it;
\* both have sent their one scroll.
C10_Witness ==
    \E t, u \in Tasks :
        /\ t # u
        /\ op[t] = "scroll_view" /\ pc[t] = "done" /\ sent[t] = <<Scroll(3)>>
        /\ op[u] = "scroll_view" /\ pc[u] = "done" /\ sent[u] = <<Scroll(7)>>
        /\ ws_created = 1 /\ http_server = 0 /\ build_dir = ""

\* The build directory of the project of the latest preview_file to assign
\* the served directory, "" before there was one.
LatestDir == IF last_preview = NONE THEN "" ELSE get_client(last_preview).build_dir

\* Task t returns a uri from preview_file in this step.
ReturnsUri(t) ==
    /\ op'[t] = "preview_file" /\ pc[t] # "done" /\ pc'[t] = "done"
    /\ ret'[t] \notin {Absent, Raised}

\* The step is a preview_file of task t that assigns the served directory
\* (a call that repeats the task's previous one leaves its record as it was).
Retargets(t) ==
    /\ Free(t) /\ op'[t] = "preview_file" /\ pc'[t] \in {"sleep", "done"}
    /\ html_path'[t] # EMPTY /\ last_preview' = arg'[t].doc
    /\ \A u \in Tasks \ {t} : ~Stepped(u)

\* C17: the served directory is "" until a preview_file has passed the
\* builder test, and from then on the build directory of the client of the
\* latest preview_file to assign it; only preview_file changes it; so an
\* on_build for the project of that latest preview_file reloads and an
\* on_build for any other project sends nothing.
C17_LastRequestWins ==
    /\ build_dir = LatestDir
    /\ [][ /\ build_dir' # build_dir => \E t \in Tasks : Retargets(t)
           /\ \A t \in Tasks :
                (Starts(t, "on_build") /\ last_preview # NONE) =>
                   IF Matches(arg'[t].doc, LatestDir)
                   THEN \/ pc'[t] = "done" /\ sent'[t] = <<Reload>>
                        \/ pc'[t] = "sleep" /\ sent'[t] = <<>>
                   ELSE pc'[t] = "done" /\ sent'[t] = <<>>
           /\ build_dir' = LatestDir'
         ]_vars

\* While the latest preview is one of project B, a build of A has been
\* ignored and a build of B has reloaded.
C17_Witness ==
    /\ last_preview = "B" /\ build_dir = Client("B").build_dir
    /\ http_created = 1
    /\ \E t, u \in Tasks :
          /\ op[t] = "on_build" /\ arg[t].doc = "A" /\ pc[t] = "done"
          /\ seen_dir[t] = build_dir /\ sent[t] = <<>>
          /\ op[u] = "on_build" /\ arg[u].doc = "B" /\ pc[u] = "done"
          /\ seen_dir[u] = build_dir /\ sent[u] = <<Reload>>

\* C18 as stated: every preview_file that returns a uri returns it while the
\* served directory is the build directory of its own client.
C18_ReturnsInOwnProject ==
    [][\A t \in Tasks :
        ReturnsUri(t) => build_dir' = get_client(arg'[t].doc).build_dir
      ]_vars

\* C18, amended: every preview_file that returns a uri returns it while the
\* served directory is the build directory of the client of the latest
\* preview_file to assign it, which is the call's own client unless a
\* preview_file of another project assigned it in between.
C18_ReturnsInLatestProject ==
    [][\A t \in Tasks :
        ReturnsUri(t) =>
           /\ build_dir' = get_client(last_preview').build_dir
           /\ last_preview' = arg'[t].doc =>
                 build_dir' = get_client(arg'[t].doc).build_dir
      ]_vars

\* A preview of project A has returned its uri from the sleep while the
\* served directory was project B's, assigned by a later preview.
C18_Witness ==
    \E t, u \in Tasks :
        /\ op[t] = "preview_file" /\ arg[t].doc = "A" /\ pc[t] = "done"
        /\ ret[t] \notin {Absent, Raised}
        /\ op[u] = "preview_file" /\ arg[u].doc = "B" /\ pc[u] = "done"
        /\ ret[u] \notin {Absent, Raised}
        /\ last_preview = "B" /\ build_dir = Client("B").build_dir

\* C19: a call that starts while the creator of the web socket server is
\* still between making the server and its bind is handed no server: it
\* sends no reload and no scroll and reads no port before the bind.
C19_WaitsForCreatorsBind ==
    [][\A t \in Tasks :
        (/\ Free(t) /\ Stepped(t)
         /\ ws_server # 0 /\ ws_starting
         /\ \E u \in Tasks : u # t /\ pc[u] = "sleep")
        => (webview'[t] = NoServer /\ sent'[t] = <<>>)
      ]_vars

\* C20: until a preview_file has assigned the served directory, every
\* on_build ends at once, sends nothing and changes nothing of the
\* PreviewManager: no web socket server is created for it.
C20_NoReloadBeforeFirstPreview ==
    [][ /\ \A t \in Tasks :
             (Starts(t, "on_build") /\ last_preview = NONE) =>
                (pc'[t] = "done" /\ sent'[t] = <<>> /\ UNCHANGED coord)
        /\ last_preview' = NONE =>
             \A t \in Tasks : op'[t] = "on_build" => (pc'[t] = "done" /\ sent'[t] = <<>>)
      ]_vars

\* Before any preview, a build of a project with a resolved build directory
\* has ended with nothing sent, and no server exists.
C20_Witness ==
    /\ last_preview = NONE /\ ws_server = 0 /\ ws_created = 0
    /\ \E t \in Tasks :
          /\ op[t] = "on_build" /\ arg[t].doc = "A" /\ pc[t] = "done"
          /\ seen_dir[t] = "" /\ sent[t] = <<>>

\* ---------------------------------------- the path mapping on drawn inputs
\* preview_file's three path statements, applied to a source root, a document
\* below it and a builder name drawn from bounded sets.
Roots == {<<"/", "a">>, <<"/", "p", "/", "a">>}
Names == {<<"a">>, <<"b">>, <<"i", "n", "d", "e", "x">>,
          <<"m", "y", "i", "n", "d", "e", "x">>, <<"b", ".", "r", "s", "t">>}
Builders == {"html", "dirhtml", "latex"}

RECURSIVE RelsOf(_)
RelsOf(k) ==
    IF k = 0 THEN {EMPTY}
    ELSE {SLASH \o n \o r : n \in Names, r \in RelsOf(k - 1)}

\* Root-relative paths of reStructuredText documents, 1..MaxParts segments deep.
RelDocs == {r \o RST : r \in UNION {RelsOf(k) : k \in 1..MaxParts}}

InitMap ==
    /\ InitCoord /\ InitTasks /\ InitClient /\ InitServer /\ GuessIdle
    /\ m_pc = "drawn"
    /\ m_src \in Roots
    /\ m_rel \in RelDocs
    /\ m_builder \in Builders
    /\ m_rst = EMPTY /\ m_html = EMPTY

\* rst_path = src_uri.path.replace(client.src_uri.path, "")
MapStrip ==
    /\ m_pc = "drawn"
    /\ m_rst' = RstPath(m_src \o m_rel, m_src)
    /\ m_pc' = "stripped"
    /\ UNCHANGED <<m_src, m_rel, m_builder, m_html, coord, locals, cvars, evars, gvars>>

\* the if / elif / else on client.builder
MapBuilder ==
    /\ m_pc = "stripped"
    /\ m_html' = HtmlPath(m_builder, m_rst)
    /\ m_pc' = "mapped"
    /\ UNCHANGED <<m_src, m_rel, m_builder, m_rst, coord, locals, cvars, evars, gvars>>

NextMap == MapStrip \/ MapBuilder

SpecMap == InitMap /\ [][NextMap]_vars

\* The last segment of a path: what follows its last "/".
RECURSIVE FileName(_)
FileName(path) ==
    IF \A i \in 1..Len(path) : path[i] # "/" THEN path
    ELSE FileName(Tail(path))

\* C7: with builder html the mapped path is the root-relative path with only
\* its trailing .rst replaced by .html, every other character unchanged.
C7_HtmlReplacesOnlyTrailingRst ==
    (m_pc = "mapped" /\ m_builder = "html" /\ m_rst = m_rel)
        => m_html = DropLast(m_rel, Len(RST)) \o HTML

\* C8: with builder dirhtml a document whose file name is exactly index.rst
\* maps to its directory, and any other document maps to its root-relative
\* path with only the trailing .rst replaced by "/".
C8_DirhtmlRule ==
    (m_pc = "mapped" /\ m_builder = "dirhtml" /\ m_rst = m_rel)
        => m_html = IF FileName(m_rel) = INDEX_RST
                    THEN DropLast(m_rel, Len(INDEX_RST))
                    ELSE DropLast(m_rel, Len(RST)) \o SLASH

\* C9: the path handed to the builder mapping is the document path with
\* exactly the leading source root removed; a later occurrence of the source
\* root string is left intact.
C9_OnlyLeadingRootStripped ==
    m_pc \in {"stripped", "mapped"} => m_rst = m_rel

(***************************************************************************)
(* SphinxClient: one agent process, its exit, and create_application.      *)
(* The client is driven by the Registry and by its own process; the        *)
(* coordinator's variables stay as constructed in this specification.      *)
(***************************************************************************)

\* What server.stderr is when server_exit looks at it: a stream whose bytes
\* are utf8 text, a stream whose bytes are not utf8, a stream whose read
\* fails, or None (no pipe).
StderrStates == {"text", "undecodable", "unreadable", "absent"}

\* The values a sphinx/createApp result can carry.
SrcDirs == {"/a", "/b"}
GoodInfos == {Info(d, d, d \o "/_build", k) : d \in SrcDirs, k \in {"html", "dirhtml"}}
\* A result object that lacks some of the four values.
PartialInfos == {Info("/a", "/a", NONE, "html"), Info("/a", NONE, NONE, NONE)}
Responses ==
    {[kind |-> "result", info |-> i] : i \in GoodInfos}
    \cup {[kind |-> "malformed", info |-> i] : i \in PartialInfos}
    \cup {[kind |-> "error", info |-> NoInfo]}

\* The derived accessors of the client.
src_dir == IF sphinx_info = NoInfo THEN NONE ELSE sphinx_info.src_dir
conf_dir == IF sphinx_info = NoInfo THEN NONE ELSE sphinx_info.conf_dir
client_build_dir == IF sphinx_info = NoInfo THEN NONE ELSE sphinx_info.build_dir
from_fs_path(dir) == IF dir = NONE THEN NONE ELSE "file://" \o dir
src_uri == from_fs_path(src_dir)
conf_uri == from_fs_path(conf_dir)
build_uri == from_fs_path(client_build_dir)

\* SphinxClient.start: start_io spawns the agent.
start ==
    /\ c_proc = "unstarted"
    /\ c_proc' = "running"
    /\ \E e \in StderrStates : c_stderr' = e
    /\ UNCHANGED <<c_code, c_stopped, c_exit, c_read, sphinx_info,
                   ca_pc, ca_sent, ca_live, ca_resp, c_succeeded>>
    /\ UNCHANGED <<coord, locals, mvars, evars, gvars>>

InvalidState_Never == FALSE
\* create_application: if self.stopped
InvalidState == c_stopped

\* create_application up to its await: the stopped check, then the request.
\* A request written while no agent process runs reaches nobody.
create_application ==
    /\ ca_pc # "awaiting"
    /\ ca_resp' = NoResponse
    /\ IF InvalidState
       THEN /\ ca_pc' = "invalid_state"
            /\ ca_sent' = FALSE
            /\ ca_live' = FALSE
       ELSE /\ ca_pc' = "awaiting"
            /\ ca_sent' = TRUE
            /\ ca_live' = (c_proc = "running")
    /\ UNCHANGED <<c_proc, c_code, c_stderr, c_stopped, c_exit, c_read,
                   sphinx_info, c_succeeded>>
    /\ UNCHANGED <<coord, locals, mvars, evars, gvars>>

\* The agent answers the pending request and create_application resumes:
\* an error response raises out of the await, any result is assigned to
\* sphinx_info as it came and returned.
agent_answers ==
    /\ ca_pc = "awaiting" /\ ca_live /\ c_proc = "running"
    /\ \E r \in Responses :
        /\ ca_resp' = r
        /\ IF r.kind = "error"
           THEN /\ ca_pc' = "failed"
                /\ UNCHANGED <<sphinx_info, c_succeeded>>
           ELSE /\ ca_pc' = "returned"
                /\ sphinx_info' = r.info
                /\ c_succeeded' = TRUE
    /\ UNCHANGED <<c_proc, c_code, c_stderr, c_stopped, c_exit, c_read,
                   ca_sent, ca_live>>
    /\ UNCHANGED <<coord, locals, mvars, evars, gvars>>

\* The agent process terminates.
process_exit ==
    /\ c_proc = "running"
    /\ c_proc' = "exited"
    /\ \E n \in ExitCodes : c_code' = Code(n)
    /\ UNCHANGED <<c_stderr, c_stopped, c_exit, c_read, sphinx_info,
                   ca_pc, ca_sent, ca_live, ca_resp, c_succeeded>>
    /\ UNCHANGED <<coord, locals, mvars, evars, gvars>>

\* The base client marks itself stopped once the server_exit hook has
\* returned; a hook that raises ends the exit handling before that.
Stops(outcome) == outcome = "returned"

\* server_exit up to its await: nothing more on a zero status, otherwise the
\* read of server.stderr is started.
server_exit ==
    /\ c_proc = "exited" /\ c_exit = "none"
    /\ IF NonZero(c_code)
       THEN IF c_stderr = "absent"
            THEN c_exit' = "raised" /\ c_read' = FALSE
            ELSE c_exit' = "reading" /\ c_read' = TRUE
       ELSE c_exit' = "returned" /\ c_read' = FALSE
    /\ c_stopped' = (c_stopped \/ Stops(c_exit'))
    /\ UNCHANGED <<c_proc, c_code, c_stderr, sphinx_info,
                   ca_pc, ca_sent, ca_live, ca_resp, c_succeeded>>
    /\ UNCHANGED <<coord, locals, mvars, evars, gvars>>

\* server_exit from its await: the read answers or fails, the bytes are
\* decoded as utf8 and logged.
server_exit_read ==
    /\ c_exit = "reading"
    /\ c_exit' = IF c_stderr = "text" THEN "returned" ELSE "raised"
    /\ c_stopped' = (c_stopped \/ Stops(c_exit'))
    /\ UNCHANGED <<c_proc, c_code, c_stderr, c_read, sphinx_info,
                   ca_pc, ca_sent, ca_live, ca_resp, c_succeeded>>
    /\ UNCHANGED <<coord, locals, mvars, evars, gvars>>

NextClient ==
    \/ start
    \/ create_application
    \/ agent_answers
    \/ process_exit
    \/ server_exit
    \/ server_exit_read

SpecClient == Init /\ [][NextClient]_vars

\* The client's state as the specification names it.
Running == c_proc = "running" /\ ~c_stopped
\* create_application takes a step.
Calls == ca_pc # "awaiting" /\ ca_pc' # ca_pc

InfoValues ==
    {sphinx_info.src_dir, sphinx_info.conf_dir, sphinx_info.build_dir,
     sphinx_info.builder}
\* server_exit has run to its end, by return or by exception.
ExitHandled == c_exit \in {"returned", "raised"}

\* C12: in every state the four values of the resolved info are all present
\* or all absent, and the six derived accessors are null until some
\* create_application call has returned.
C12_InfoAllOrNothing ==
    /\ InfoValues = {NONE} \/ NONE \notin InfoValues
    /\ ~c_succeeded =>
          {src_dir, conf_dir, client_build_dir, src_uri, conf_uri, build_uri} = {NONE}

\* C13: once the exit of the agent process has been handled the client is
\* stopped, whatever the exit code, it stays stopped, and every
\* create_application call made from then on ends with the invalid-state
\* error.
C13_ExitStopsClient ==
    [][ /\ ExitHandled' => c_stopped'
        /\ c_stopped => c_stopped'
        /\ (Calls /\ ExitHandled) => ca_pc' = "invalid_state"
      ]_vars

\* C14: a create_application call whose request was pending when the agent
\* process died, or whose answer was malformed, has failed for its caller,
\* and the client is then stopped.
C14_TransportFailurePropagates ==
    /\ (ca_live /\ ExitHandled) => ca_pc # "awaiting"
    /\ (ca_live /\ ExitHandled /\ ca_resp = NoResponse) =>
          (ca_pc = "failed" /\ c_stopped)
    /\ ca_resp.kind = "malformed" => (ca_pc = "failed" /\ c_stopped)

\* C15: server_exit never raises, whatever the exit code and whatever
\* server.stderr is, and it reads server.stderr only on a non-zero code.
C15_ServerExitNeverRaises ==
    /\ c_exit # "raised"
    /\ c_read => NonZero(c_code)

(***************************************************************************)
(* EsbonioLanguageServer.load_extension                                    *)
(***************************************************************************)

\* The longest parameter list of a setup function.
MaxParams == 2

\* What a parameter of a setup function can be annotated with: the server's
\* class, a LanguageFeature class, a class that is neither, a type that is
\* not a class (a subscripted generic), or nothing.
ParamKinds == {"server", "feature", "other", "nonclass", "unannotated"}
FEATURE == "feature"

RECURSIVE ParamLists(_)
ParamLists(n) ==
    IF n = 0 THEN {<<>>}
    ELSE ParamLists(n - 1)
         \cup {Append(l, k) : l \in {m \in ParamLists(n - 1) : Len(m) = n - 1},
                              k \in ParamKinds}

Setups ==
    [params : ParamLists(MaxParams),
     provides : {NONE, FEATURE},
     raises : {"no", "Exception", "BaseException"}]

\* The results of _get_setup_arguments: a dict of n arguments, None, or an
\* exception leaving the function.
Args(n) == [kind |-> "args", n |-> n]
NoArgs == [kind |-> "None", n |-> 0]
Raises == [kind |-> "raise", n |-> 0]

\* The loop of _get_setup_arguments from parameter i on, n arguments found.
RECURSIVE collect(_, _, _, _)
collect(params, i, n, features) ==
    IF i > Len(params) THEN Args(n)
    ELSE CASE params[i] = "nonclass" -> Raises
           [] params[i] = "server" -> collect(params, i + 1, n + 1, features)
           [] params[i] = "feature" ->
                IF FEATURE \in features
                THEN collect(params, i + 1, n + 1, features)
                ELSE NoArgs
           [] OTHER -> NoArgs

\* _get_setup_arguments: annotations[p.name] of a parameter without a hint
\* is a KeyError, raised before the loop.
get_setup_arguments(setup, features) ==
    IF \E i \in 1..Len(setup.params) : setup.params[i] = "unannotated"
    THEN Raises
    ELSE collect(setup.params, 1, 0, features)

\* add_feature: a RuntimeError if the class is registered already.
add_feature_raises(f, features) == f \in features

\* How setup(**arguments) ends: it registers its feature, then raises or
\* returns.
setup_outcome(setup, features) ==
    IF setup.provides # NONE /\ add_feature_raises(setup.provides, features)
    THEN "Exception"
    ELSE setup.raises

\* load_extension: except Exception
Caught(exc) == exc = "Exception"

Call(name, was, called, outcome) ==
    [name |-> name, was_loaded |-> was, called |-> called, outcome |-> outcome]

load_extension(name, setup) ==
    LET arguments == get_setup_arguments(setup, _features)
        end == setup_outcome(setup, _features)
    IN
    /\ IF _loaded_extensions[name] # NoSetup
       THEN /\ e_last' = Call(name, TRUE, FALSE, "skipped")
            /\ UNCHANGED <<_loaded_extensions, _features>>
       ELSE IF arguments.kind = "raise"
       THEN /\ e_last' = Call(name, FALSE, FALSE, "propagated")
            /\ UNCHANGED <<_loaded_extensions, _features>>
       ELSE IF arguments.kind = "None" \/ arguments.n = 0
       THEN /\ e_last' = Call(name, FALSE, FALSE, "unresolved")
            /\ UNCHANGED <<_loaded_extensions, _features>>
       ELSE /\ _features' =
                  IF setup.provides # NONE
                     /\ ~add_feature_raises(setup.provides, _features)
                  THEN _features \cup {setup.provides}
                  ELSE _features
            /\ IF end = "no"
               THEN /\ _loaded_extensions' =
                          [_loaded_extensions EXCEPT ![name] = setup]
                    /\ e_last' = Call(name, FALSE, TRUE, "loaded")
               ELSE /\ UNCHANGED _loaded_extensions
                    /\ e_last' = Call(name, FALSE, TRUE,
                                      IF Caught(end) THEN "logged" ELSE "propagated")
    /\ UNCHANGED <<coord, locals, mvars, cvars, gvars>>

NextExt == \E name \in ExtNames, setup \in Setups : load_extension(name, setup)

SpecExt == Init /\ [][NextExt]_vars

\* C16: a load_extension call for a name already loaded does not call the
\* setup function; a name is recorded only by a call that called setup and
\* saw it return; and a call whose arguments could not be built, or whose
\* setup raised, changes no recorded extension and lets no exception out.
C16_LoadExtension ==
    [][ /\ e_last'.was_loaded => ~e_last'.called
        /\ _loaded_extensions' # _loaded_extensions =>
              /\ e_last'.called /\ e_last'.outcome = "loaded"
              /\ _loaded_extensions[e_last'.name] = NoSetup
              /\ \A n \in ExtNames \ {e_last'.name} :
                    _loaded_extensions'[n] = _loaded_extensions[n]
        /\ e_last'.outcome # "propagated"
      ]_vars

(***************************************************************************)
(* SphinxConfig._guess_build_command: the search for conf.py from a path   *)
(* up to the filesystem root.  A path is the sequence of its segments, the *)
(* root is the empty sequence.  The filesystem does not change during one  *)
(* search.                                                                 *)
(***************************************************************************)

\* The deepest path searched from, and the most conf.py files on disk.
MaxDepth == 3
MaxConf == 2

SegNames == {"a", "b"}

RECURSIVE PathsOf(_)
PathsOf(n) ==
    IF n = 0 THEN {<<>>}
    ELSE PathsOf(n - 1)
         \cup {Append(q, x) : q \in {r \in PathsOf(n - 1) : Len(r) = n - 1},
                              x \in SegNames}

\* pathlib: Path.parent; the parent of the root is the root.
parent(p) == IF p = <<>> THEN <<>> ELSE SubSeq(p, 1, Len(p) - 1)

\* (current / "conf.py").exists()
exists(dir) == dir \in conf_dirs

\* str(current)
RECURSIVE str(_)
str(p) ==
    IF p = <<>> THEN "/"
    ELSE IF Len(p) = 1 THEN "/" \o p[1]
    ELSE str(parent(p)) \o "/" \o p[Len(p)]

\* hashlib.md5(...).hexdigest(), kept as a digest named by what was hashed.
md5(text) == "md5(" \o text \o ")"

\* The list returned when conf.py is found in dir.
BuildCommand(dir) ==
    <<"sphinx-build", "-M", "dirhtml", str(dir),
      "<user_cache_dir>/" \o md5(str(dir))>>

\* _guess_build_command is called: the path of a document, or None, from
\* to_fs_path, and a filesystem.
InitGuess ==
    /\ InitCoord /\ InitTasks /\ MapIdle /\ InitClient /\ InitServer
    /\ g_pc = "called"
    /\ fs_path \in (PathsOf(MaxDepth) \ {<<>>}) \cup {NoPath}
    /\ conf_dirs \in {c \in SUBSET PathsOf(MaxDepth) : Cardinality(c) <= MaxConf}
    /\ previous = NoPath /\ current = NoPath
    /\ tried = <<>> /\ command = <<>>

\* Lines 89-96: return [] for no path, otherwise previous = None and
\* current = Path(path).
guess_begin ==
    /\ g_pc = "called"
    /\ IF fs_path = NoPath
       THEN g_pc' = "done" /\ UNCHANGED current
       ELSE g_pc' = "loop" /\ current' = fs_path
    /\ UNCHANGED <<fs_path, conf_dirs, previous, tried, command>>
    /\ UNCHANGED <<coord, locals, mvars, cvars, evars>>

\* One pass of the while loop: previous != current held.
guess_iterate ==
    /\ g_pc = "loop" /\ previous # current
    /\ previous' = current
    /\ current' = parent(current)
    /\ tried' = Append(tried, current')
    /\ IF exists(current')
       THEN g_pc' = "done" /\ command' = BuildCommand(current')
       ELSE UNCHANGED <<g_pc, command>>
    /\ UNCHANGED <<fs_path, conf_dirs>>
    /\ UNCHANGED <<coord, locals, mvars, cvars, evars>>

\* The while test fails: return [].
guess_exhausted ==
    /\ g_pc = "loop" /\ previous = current
    /\ g_pc' = "done" /\ command' = <<>>
    /\ UNCHANGED <<fs_path, conf_dirs, previous, current, tried>>
    /\ UNCHANGED <<coord, locals, mvars, cvars, evars>>

NextGuess ==
    \/ guess_begin
    \/ guess_iterate
    \/ guess_exhausted

SpecGuess == InitGuess /\ [][NextGuess]_vars

\* dir is an ancestor of p other than p itself.
StrictAncestor(dir, p) == Len(dir) < Len(p) /\ SubSeq(p, 1, Len(dir)) = dir

\* The search ended as it should: with the command of the nearest strict
\* ancestor that holds conf.py, found by the last test made, or with the
\* empty command after the root was tested and no test found conf.py.
EndsRight ==
    IF command # <<>>
    THEN /\ tried # <<>>
         /\ LET dir == tried[Len(tried)] IN
               /\ exists(dir) /\ command = BuildCommand(dir)
               /\ StrictAncestor(dir, fs_path)
               /\ \A i \in 1..(Len(tried) - 1) : ~exists(tried[i])
               /\ \A other \in conf_dirs :
                     StrictAncestor(other, fs_path) => Len(other) <= Len(dir)
    ELSE /\ tried # <<>> /\ tried[Len(tried)] = <<>>
         /\ \A i \in 1..Len(tried) : ~exists(tried[i])

\* C21: the search from any path tests strict ancestors of the path only
\* and none of them twice, so it ends within as many tests as there are; it
\* stops at the first ancestor that holds conf.py and returns the command
\* naming it, and it returns the empty command once the root was tested
\* without a match.
C21_SearchUpwards ==
    fs_path # NoPath =>
       /\ \A i \in 1..Len(tried) : StrictAncestor(tried[i], fs_path)
       /\ \A i, j \in 1..Len(tried) : i # j => tried[i] # tried[j]
       /\ g_pc = "done" => EndsRight

====
